---- MODULE Spec2Model ----
(***************************************************************************)
(* Model of the power-curve engine of fitAnalysis: the per-recording       *)
(* processor calculate_and_save_single_file_power_curve (app/services.py), *)
(* its gap filler and rolling calculator, and the upload / delete callers  *)
(* (app/files/routes.py).                                                  *)
(*                                                                         *)
(* Time is counted in ticks of half a second, power in tenths of a         *)
(* milliwatt, and stored curve values in thousandths of a watt             *)
(* (round(x, 3)).                                                          *)
(***************************************************************************)
EXTENDS Integers, Sequences, FiniteSets, Bags, TLC

\* ------------------------------------------------------------------ bounds
NumFiles == 2            \* ids the fit_file table hands out: 1..NumFiles
NumWorkers == 2          \* concurrent request threads
MaxInvocations == 2      \* cap on processing invocations started in a run
MaxRows == 3             \* longest list of rows handed to the calculator
MaxTick == 4             \* latest timestamp of such a row, in ticks

\* ------------------------------------------------------- program constants
TicksPerSecond == 2      \* model resolution: one tick is 0.5 s
GapThresholdSeconds == 1 \* "if time_diff_seconds > 1.0"
FillStepSeconds == 1     \* "timedelta(seconds=1)"
MilliPerWatt == 1000     \* round(float(max_power), 3)
UnitsPerMilli == 10      \* model resolution of a power: 0.1 mW

None == -1               \* Python's None for a missing field / result

window_durations ==
    << 1, 2, 3, 4, 5, 6, 7, 8, 9, 10,
       12, 15, 20, 30, 45,
       60, 75, 90, 120, 150, 180,
       240, 300, 420, 600, 900,
       1200, 1800, 2700, 3600, 5400 >>

\* --------------------------------------------------------------- sequences
Range(s) == { s[i] : i \in 1..Len(s) }

RECURSIVE SumSeq(_)
SumSeq(s) == IF s = << >> THEN 0 ELSE Head(s) + SumSeq(Tail(s))

SetMax(S) == CHOOSE x \in S : \A y \in S : y <= x

\* Insert r behind every element whose timestamp is <= r.timestamp: the
\* building block of a stable sort (list.sort is stable).
RECURSIVE InsertSorted(_, _)
InsertSorted(r, s) ==
    IF s = << >> THEN << r >>
    ELSE IF r.timestamp < Head(s).timestamp THEN << r >> \o s
    ELSE << Head(s) >> \o InsertSorted(r, Tail(s))

RECURSIVE SortByTimestamp(_)
SortByTimestamp(s) ==
    IF s = << >> THEN << >>
    ELSE InsertSorted(s[Len(s)], SortByTimestamp(SubSeq(s, 1, Len(s) - 1)))

\* ------------------------------------------------------ reading the frames
\* A record with its power given in whole watts, and one with its power
\* given in tenths of a milliwatt.
Rec(t, p) ==
    [timestamp |-> t,
     power |-> IF p = None THEN None ELSE p * MilliPerWatt * UnitsPerMilli]

FineRec(t, units) == [timestamp |-> t, power |-> units]

\* services.py:168 keeps a record frame only when its timestamp is a datetime
\* and its power is not None.
IsValidFrame(r) == r.timestamp # None /\ r.power # None

\* Variant: a frame without power is kept as a zero-power sample.
ValidRecords_MissingPowerIsZero(frames) ==
    LET timed == SelectSeq(frames, LAMBDA r : r.timestamp # None)
    IN  [i \in 1..Len(timed) |->
            IF timed[i].power = None THEN Rec(timed[i].timestamp, 0)
            ELSE timed[i]]

ValidRecords(frames) == SelectSeq(frames, IsValidFrame)

\* -------------------------------------------------------------- gap filling
\* Zero-power records for one gap: fill_time runs from cur + 1 s while it is
\* before next, and is appended only when at least 1 s before next.
RECURSIVE FillBetween(_, _)
\* Variant: a fill time is appended only when more than 1 s before next.
FillBetween_MoreThanOneBefore(fill_time, next_record_time) ==
    IF fill_time < next_record_time
    THEN (IF next_record_time - fill_time > FillStepSeconds * TicksPerSecond
          THEN << Rec(fill_time, 0) >> ELSE << >>)
         \o FillBetween(fill_time + FillStepSeconds * TicksPerSecond,
                        next_record_time)
    ELSE << >>

FillBetween(fill_time, next_record_time) ==
    IF fill_time < next_record_time
    THEN (IF next_record_time - fill_time >= FillStepSeconds * TicksPerSecond
          THEN << Rec(fill_time, 0) >> ELSE << >>)
         \o FillBetween(fill_time + FillStepSeconds * TicksPerSecond,
                        next_record_time)
    ELSE << >>

\* Variant: only a silence of more than two seconds counts as a gap.
GapRecords_TwoSeconds(current_record_time, next_record_time) ==
    IF next_record_time - current_record_time
          > 2 * GapThresholdSeconds * TicksPerSecond
    THEN FillBetween(current_record_time + FillStepSeconds * TicksPerSecond,
                     next_record_time)
    ELSE << >>

\* services.py:196-209: a difference of more than one second is a gap.
GapRecords(current_record_time, next_record_time) ==
    IF next_record_time - current_record_time
          > GapThresholdSeconds * TicksPerSecond
    THEN FillBetween(current_record_time + FillStepSeconds * TicksPerSecond,
                     next_record_time)
    ELSE << >>

RECURSIVE FillFrom(_, _)
FillFrom(raw, i) ==
    IF i >= Len(raw) THEN << >>
    ELSE GapRecords(raw[i].timestamp, raw[i + 1].timestamp)
         \o << raw[i + 1] >> \o FillFrom(raw, i + 1)

FillGaps(raw_records_data) ==
    IF raw_records_data = << >> THEN << >>
    ELSE << raw_records_data[1] >> \o FillFrom(raw_records_data, 1)

RECURSIVE Deduplicate(_, _)
\* Variant: repeated timestamps are left in.
Deduplicate_Skipped(s, seen_timestamps) == s

\* services.py:218-225: keep the first record of every timestamp.
Deduplicate(s, seen_timestamps) ==
    IF s = << >> THEN << >>
    ELSE IF Head(s).timestamp \in seen_timestamps
         THEN Deduplicate(Tail(s), seen_timestamps)
         ELSE << Head(s) >>
              \o Deduplicate(Tail(s), seen_timestamps \cup {Head(s).timestamp})

\* The list handed to the calculator for the frames of one file.
ProcessedRecords(frames) ==
    Deduplicate(FillGaps(SortByTimestamp(ValidRecords(frames))), {})

\* ------------------------------------------------------- rolling calculator
\* Variant: the mean is cut off after the third decimal.
RoundedMean_Truncated(sum, n) == sum \div (UnitsPerMilli * n)

\* round(x, 3) of the mean sum/n, in thousandths of a watt.  With fewer than
\* 16 rows and whole-watt powers 1000*sum/n never lies on a rounding tie,
\* nor do the finer powers that are explored.
RoundedMean(sum, n) ==
    (2 * sum + UnitsPerMilli * n) \div (2 * UnitsPerMilli * n)

\* Variant: the window is closed on both sides.
WindowRows_ClosedLeft(df, i, d) ==
    { j \in 1..i : df[j].timestamp >= df[i].timestamp - d * TicksPerSecond }

\* Rows of the window of row i for duration d: rolling('<d>s',
\* closed='right') looks back from row i over the rows whose timestamp lies
\* in (t_i - d, t_i].
WindowRows(df, i, d) ==
    { j \in 1..i : df[j].timestamp > df[i].timestamp - d * TicksPerSecond }

WindowSum(df, i, d) ==
    SumSeq([k \in 1..i |-> IF k \in WindowRows(df, i, d)
                             THEN df[k].power ELSE 0])

\* Variant: one observation is enough (min_periods = 1).
EligibleRows_AtLeastOne(df, d) ==
    { i \in 1..Len(df) : Cardinality(WindowRows(df, i, d)) >= 1 }

\* Rows whose window holds at least min_periods = d observations.
EligibleRows(df, d) ==
    { i \in 1..Len(df) : Cardinality(WindowRows(df, i, d)) >= d }

\* Variant: the smallest rolling mean is taken.
max_power_Min(df, d) ==
    CHOOSE x \in { RoundedMean(WindowSum(df, i, d),
                               Cardinality(WindowRows(df, i, d)))
                   : i \in EligibleRows(df, d) } :
        \A y \in { RoundedMean(WindowSum(df, i, d),
                               Cardinality(WindowRows(df, i, d)))
                   : i \in EligibleRows(df, d) } : x <= y

\* Variant: the window's sum is divided by the window's length in seconds.
max_power_PerSecond(df, d) ==
    SetMax({ RoundedMean(WindowSum(df, i, d), d) : i \in EligibleRows(df, d) })

\* services.py:121: the largest rolling mean of the duration.
max_power(df, d) ==
    SetMax({ RoundedMean(WindowSum(df, i, d), Cardinality(WindowRows(df, i, d)))
             : i \in EligibleRows(df, d) })

CurveKeys(df) ==
    { d \in Range(window_durations) : EligibleRows(df, d) # {} }

\* Variant: a missing timestamp or power is taken as zero instead of the
\* row being dropped.
perform_power_curve_calculation_FillsZero(records_data) ==
    LET df == SortByTimestamp(
                 [i \in 1..Len(records_data) |->
                     FineRec(IF records_data[i].timestamp = None THEN 0
                             ELSE records_data[i].timestamp,
                             IF records_data[i].power = None THEN 0
                             ELSE records_data[i].power)])
    IN  IF df = << >> THEN << >>
        ELSE [d \in CurveKeys(df) |-> max_power(df, d)]

\* Variant: only a missing timestamp drops a row; a missing power counts as
\* zero.
perform_power_curve_calculation_KeepsPowerless(records_data) ==
    LET timed == SelectSeq(records_data, LAMBDA r : r.timestamp # None)
        df == SortByTimestamp(
                 [i \in 1..Len(timed) |->
                     FineRec(timed[i].timestamp,
                             IF timed[i].power = None THEN 0
                             ELSE timed[i].power)])
    IN  IF df = << >> THEN << >>
        ELSE [d \in CurveKeys(df) |-> max_power(df, d)]

\* _perform_power_curve_calculation without the internal fault: a mapping
\* from the durations that have an eligible window to the rounded maximum.
perform_power_curve_calculation(records_data) ==
    LET df == SortByTimestamp(ValidRecords(records_data))
    IN  IF df = << >> THEN << >>
        ELSE [d \in CurveKeys(df) |-> max_power(df, d)]

\* ------------------------------------------------------------------- store
FileIds == 1..NumFiles
NoCall == 0              \* file_id of a worker that is in no invocation
Workers == 1..NumWorkers

\* FitFile.processing_status values (models.py:46); "absent" stands for an
\* id with no row in fit_file.
Absent == "absent"
Pending == "analysis_pending"
Processing == "processing"
Processed == "processed"
Failed == "analysis_failed"
Statuses == {Pending, Processing, Processed, Failed}

\* What lies at FitFile.get_full_path(): nothing, a file fitdecode cannot
\* decode, or a file with a sequence of record frames.
NoFile == [present |-> FALSE, readable |-> FALSE, frames |-> << >>]
CorruptFile == [present |-> TRUE, readable |-> FALSE, frames |-> << >>]
FitFileOf(frames) == [present |-> TRUE, readable |-> TRUE, frames |-> frames]

\* The uploaded files the model draws from: no record frame at all, frames
\* without a usable power or timestamp, a single sample, and an unsorted
\* recording with a 2 s silence and a repeated timestamp.
FilePayloads ==
    { << >>,
      << Rec(0, None), Rec(None, 150) >>,
      << Rec(0, 100) >>,
      << Rec(6, 200), Rec(0, 100), Rec(2, 300), Rec(2, 50) >> }

UploadedFiles == { FitFileOf(p) : p \in FilePayloads } \cup {CorruptFile}
DiskContents == UploadedFiles \cup {NoFile}
\* Variant: the loop over the curve's items misses the longest duration.
PointsOf_DropsLast(curve) ==
    SetToBag({ << d, curve[d] >> :
                  d \in { k \in DOMAIN curve :
                             \E l \in DOMAIN curve : l > k } })

\* One PowerCurvePoint row per key of the curve (services.py:255-260), as a
\* bag of <<duration_seconds, max_power_watts>>.
PointsOf(curve) == SetToBag({ << d, curve[d] >> : d \in DOMAIN curve })

\* Rows of one recording that carry duration d.
RowsAt(bag, d) ==
    BagCardinality([r \in { q \in BagToSet(bag) : q[1] = d } |-> bag[r]])

\* A session's uncommitted work: a bulk DELETE of the recording's points,
\* the rows handed to bulk_save_objects, and the new processing_status
\* ("" when the attribute was not assigned).
EmptySession == [deleted |-> FALSE, new_points |-> EmptyBag, status |-> ""]

\* ------------------------------------------------------- users and dates
\* The registered users; NoUser stands in the user_id of an id with no row.
Users == {1, 2}
NoUser == 0

\* Calendar days an activity can be dated on and a request can name.  A
\* recording whose file yields no date has activity_date None.
Days == {1, 2}

\* The processor never reads the owner or the date of a recording: where the
\* processor is explored, every upload comes from one user on one day.
Uploader == CHOOSE u \in Users : \A v \in Users : u <= v
UploadDay == CHOOSE d \in Days : \A e \in Days : d <= e

\* HTTP status codes of the aggregation endpoint.
Ok == 200
BadRequest == 400

\* No request has been answered yet.
NoResponse ==
    [user |-> NoUser, startDate |-> None, endDate |-> None,
     status |-> None, body |-> {}]

\* The calculator has not been called directly.
NotCalled == [called |-> FALSE, curve |-> << >>]

VARIABLES
    next_id,                 \* next primary key of fit_file
    processing_status,       \* committed FitFile.processing_status per id
    power_curve_point,       \* committed PowerCurvePoint rows per fit_file_id
    fit_dir,                 \* file at get_full_path() per id
    pc,                      \* position of each worker in the processor
    file_id,                 \* argument of the invocation a worker runs
    session,                 \* db.session of each worker
    processed_records_data,  \* gap-filled records of the invocation
    power_curve_data,        \* curve returned by the calculator
    calculator_calls,        \* calls of the calculator in the invocation
    interrupted,             \* recordings whose last invocation was cut off
    invocations,             \* processing invocations started so far
    last_good,               \* points committed by the last successful run
    runs,                    \* the last two completed runs per recording
    user_id,                 \* FitFile.user_id per id
    activity_date,           \* FitFile.activity_date per id, or None
    response,                \* the last answer of get_user_power_curve
    records_data,            \* argument of a direct call of the calculator
    result,                  \* what that call returned
    returned                 \* what the processor last returned to a caller

vars == << next_id, processing_status, power_curve_point, fit_dir, pc,
           file_id, session, processed_records_data, power_curve_data,
           calculator_calls, interrupted, invocations, last_good, runs,
           user_id, activity_date, response, records_data, result,
           returned >>

meta == << user_id, activity_date >>
store == << next_id, processing_status, power_curve_point, fit_dir, meta >>
local == << processed_records_data, power_curve_data, calculator_calls >>
\* The variables of the callers outside the processor: the aggregation
\* endpoint and a direct call of the calculator.
direct == << response, records_data, result >>

Init ==
    /\ next_id = 1
    /\ processing_status = [f \in FileIds |-> Absent]
    /\ power_curve_point = [f \in FileIds |-> EmptyBag]
    /\ fit_dir = [f \in FileIds |-> NoFile]
    /\ pc = [w \in Workers |-> "idle"]
    /\ file_id = [w \in Workers |-> NoCall]
    /\ session = [w \in Workers |-> EmptySession]
    /\ processed_records_data = [w \in Workers |-> << >>]
    /\ power_curve_data = [w \in Workers |-> << >>]
    /\ calculator_calls = [w \in Workers |-> 0]
    /\ interrupted = {}
    /\ invocations = 0
    /\ last_good = [f \in FileIds |-> EmptyBag]
    /\ runs = [f \in FileIds |-> << >>]
    /\ user_id = [f \in FileIds |-> NoUser]
    /\ activity_date = [f \in FileIds |-> None]
    /\ response = NoResponse
    /\ records_data = << >>
    /\ result = NotCalled
    /\ returned = None

\* A worker is inside an invocation for recording f.
Active(w, f) == file_id[w] = f
Busy(f) == \E w \in Workers : Active(w, f)
\* Variant: the commit adds the new rows without applying the DELETE.
CommittedPoints_Additive(old, s) == old (+) s.new_points

\* ----------------------------------------------------------------- commit
\* db.session.commit(): the session's DELETE, INSERTs and status UPDATE
\* become visible together.
CommittedPoints(old, s) ==
    (IF s.deleted THEN EmptyBag ELSE old) (+) s.new_points

CommittedStatus(old, s) == IF s.status = "" THEN old ELSE s.status
\* Variant: the new rows are written outside the transaction and show at
\* once.
VisibleBeforeCommit_Autocommit(old, s) == old (+) s.new_points

\* What the committed store shows of a session that has not committed:
\* nothing.
VisibleBeforeCommit(old, s) == old

\* The record of a completed run, kept for comparing consecutive runs: the
\* file it found, what the calculator returned and how often it was called,
\* the branch it ended in, its result, and the committed points and status
\* at its return.
RunRecord(w, res, why, pts, st) ==
    [file |-> fit_dir[file_id[w]], curve |-> power_curve_data[w],
     calls |-> calculator_calls[w], why |-> why, result |-> res,
     points |-> pts, status |-> st]

Remember(f, r) ==
    [runs EXCEPT ![f] = IF Len(@) < 2 THEN Append(@, r)
                        ELSE << @[2], r >>]

\* The worker's invocation has ended: its arguments and local variables
\* are gone.
EndOfCall(w) ==
    /\ pc' = [pc EXCEPT ![w] = "idle"]
    /\ file_id' = [file_id EXCEPT ![w] = NoCall]
    /\ session' = [session EXCEPT ![w] = EmptySession]
    /\ processed_records_data' = [processed_records_data EXCEPT ![w] = << >>]
    /\ power_curve_data' = [power_curve_data EXCEPT ![w] = << >>]
    /\ calculator_calls' = [calculator_calls EXCEPT ![w] = 0]

\* Variant: the session's DELETE is not restricted to the recording's own
\* points.
Return_DeletesEveryPoint(w, s, res, why) ==
    LET f == file_id[w]
        pts == CommittedPoints(power_curve_point[f], s)
        st == CommittedStatus(processing_status[f], s)
    IN  /\ power_curve_point' =
              [g \in FileIds |->
                  IF g = f THEN pts
                  ELSE IF s.deleted THEN EmptyBag ELSE power_curve_point[g]]
        /\ processing_status' = [processing_status EXCEPT ![f] = st]
        /\ EndOfCall(w)
        /\ runs' = Remember(f, RunRecord(w, res, why, pts, st))
        /\ last_good' = IF res = "true"
                        THEN [last_good EXCEPT ![f] = s.new_points]
                        ELSE last_good
        /\ UNCHANGED << next_id, fit_dir, interrupted, invocations, meta,
                        direct >>
        /\ returned' = res

\* The invocation of worker w returns res after committing session s.
Return(w, s, res, why) ==
    LET f == file_id[w]
        pts == CommittedPoints(power_curve_point[f], s)
        st == CommittedStatus(processing_status[f], s)
    IN  /\ power_curve_point' = [power_curve_point EXCEPT ![f] = pts]
        /\ processing_status' = [processing_status EXCEPT ![f] = st]
        /\ EndOfCall(w)
        /\ runs' = Remember(f, RunRecord(w, res, why, pts, st))
        /\ last_good' = IF res = "true"
                        THEN [last_good EXCEPT ![f] = s.new_points]
                        ELSE last_good
        /\ UNCHANGED << next_id, fit_dir, interrupted, invocations, meta,
                        direct >>
        /\ returned' = res

\* ---------------------------------------------------------------- callers
\* upload_file (files/routes.py:45-68): save the file, commit a new row in
\* analysis_pending, then call the processor with the new id.
upload_file(w, file, user, day) ==
    /\ pc[w] = "idle"
    /\ next_id <= NumFiles
    /\ ~Busy(next_id)
    /\ invocations < MaxInvocations
    /\ next_id' = next_id + 1
    /\ fit_dir' = [fit_dir EXCEPT ![next_id] = file]
    /\ processing_status' = [processing_status EXCEPT ![next_id] = Pending]
    /\ pc' = [pc EXCEPT ![w] = "start"]
    /\ file_id' = [file_id EXCEPT ![w] = next_id]
    /\ user_id' = [user_id EXCEPT ![next_id] = user]
    /\ activity_date' = [activity_date EXCEPT ![next_id] = day]
    /\ invocations' = invocations + 1
    /\ UNCHANGED << power_curve_point, session, local, interrupted,
                    last_good, runs, direct,
                    returned >>

\* An explicit re-invocation of the processor for any id, existing or not.
\* The file system is outside the engine: the invocation finds at the path of
\* an existing recording whatever file is there by then, or none.
\* Invocations for the same recording do not overlap (the processor is a
\* blocking, non-reentrant unit of work per recording).
reprocess(w, id, file) ==
    /\ pc[w] = "idle"
    /\ ~Busy(id)
    /\ invocations < MaxInvocations
    /\ fit_dir' = IF processing_status[id] = Absent THEN fit_dir
                  ELSE [fit_dir EXCEPT ![id] = file]
    /\ pc' = [pc EXCEPT ![w] = "start"]
    /\ file_id' = [file_id EXCEPT ![w] = id]
    /\ invocations' = invocations + 1
    /\ UNCHANGED << next_id, processing_status, power_curve_point, session,
                    local, interrupted, last_good, runs, meta, direct,
                    returned >>

\* Variant: the row is deleted without the cascade to its points.
delete_file_KeepsPoints(user, f) ==
    /\ processing_status[f] # Absent
    /\ user_id[f] = user
    /\ ~Busy(f)
    /\ fit_dir' = [fit_dir EXCEPT ![f] = NoFile]
    /\ processing_status' = [processing_status EXCEPT ![f] = Absent]
    /\ last_good' = [last_good EXCEPT ![f] = EmptyBag]
    /\ runs' = [runs EXCEPT ![f] = << >>]
    /\ interrupted' = interrupted \ {f}
    /\ user_id' = [user_id EXCEPT ![f] = NoUser]
    /\ activity_date' = [activity_date EXCEPT ![f] = None]
    /\ UNCHANGED << next_id, power_curve_point, pc, file_id, session, local,
                    invocations, direct,
                    returned >>

\* delete_file (files/routes.py:161-184): remove the file and the row; the
\* cascade removes the recording's points.
delete_file(user, f) ==
    /\ processing_status[f] # Absent
    /\ user_id[f] = user
    /\ ~Busy(f)
    /\ fit_dir' = [fit_dir EXCEPT ![f] = NoFile]
    /\ processing_status' = [processing_status EXCEPT ![f] = Absent]
    /\ power_curve_point' = [power_curve_point EXCEPT ![f] = EmptyBag]
    /\ last_good' = [last_good EXCEPT ![f] = EmptyBag]
    /\ runs' = [runs EXCEPT ![f] = << >>]
    /\ interrupted' = interrupted \ {f}
    /\ user_id' = [user_id EXCEPT ![f] = NoUser]
    /\ activity_date' = [activity_date EXCEPT ![f] = None]
    /\ UNCHANGED << next_id, pc, file_id, session, local, invocations,
                    direct,
                    returned >>

\* -------------------------------------------------------------- processor
\* calculate_and_save_single_file_power_curve, one action per stretch of
\* code between two places where the committed store or the control flow
\* can change.

\* Variant: an invocation that finds no row reports success.
NotFoundResult_True == "true"

\* services.py:145: return False.
NotFoundResult == "false"

\* Variant: the invocation starts without recording 'processing'.
BeginStatus_NotSet == ""

\* services.py:141-149: look the row up; not found returns False, otherwise
\* the status 'processing' is committed on its own.
BeginStatus == Processing

Begin(w) ==
    /\ pc[w] = "start"
    /\ IF processing_status[file_id[w]] = Absent
       THEN /\ EndOfCall(w)
            /\ returned' = NotFoundResult
            /\ UNCHANGED << processing_status, interrupted >>
       ELSE /\ processing_status' =
                  [processing_status EXCEPT ![file_id[w]] =
                      CommittedStatus(@, [EmptySession EXCEPT
                                             !.status = BeginStatus])]
            /\ pc' = [pc EXCEPT ![w] = "processing"]
            /\ interrupted' = interrupted \ {file_id[w]}
            /\ UNCHANGED << file_id, session, local, returned >>
    /\ UNCHANGED << next_id, power_curve_point, fit_dir, invocations,
                    last_good, runs, meta, direct >>

\* Variant: the missing-file branch returns without assigning the status.
MissingFileStatus_NotSet == ""

\* services.py:151-157: no file at the path: commit 'analysis_failed' and
\* return False.
MissingFileStatus == Failed

FileNotFound(w) ==
    /\ pc[w] = "processing"
    /\ ~fit_dir[file_id[w]].present
    /\ Return(w, [session[w] EXCEPT !.status = MissingFileStatus], "false",
              "file_missing")

\* services.py:159-228: decode the record frames, keep the valid ones, sort
\* them, fill the gaps and drop repeated timestamps; a FitError leaves to
\* the first handler.
ReadRecords(w) ==
    /\ pc[w] = "processing"
    /\ fit_dir[file_id[w]].present
    /\ IF fit_dir[file_id[w]].readable
       THEN /\ processed_records_data' =
                  [processed_records_data EXCEPT ![w] =
                      ProcessedRecords(fit_dir[file_id[w]].frames)]
            /\ pc' = [pc EXCEPT ![w] = "filled"]
       ELSE /\ pc' = [pc EXCEPT ![w] = "fit_error"]
            /\ UNCHANGED processed_records_data
    /\ UNCHANGED << store, file_id, session, power_curve_data,
                    calculator_calls, interrupted, invocations, last_good,
                    runs, direct,
                    returned >>

\* Variant: the old points are not deleted.
SessionAfterDelete_Skipped(s) == s

\* services.py:251 (and 232, 245): the bulk DELETE of the recording's
\* points is issued inside the session's transaction.
SessionAfterDelete(s) == [s EXCEPT !.deleted = TRUE]
\* Variant: "no data" is treated as an error.
NoDataStatus_Failed == Failed

\* services.py:233 and 246: "no data" is marked as processed.
NoDataStatus == Processed

\* services.py:230-236: nothing to calculate: delete the points, commit
\* 'processed', return True.
NoRecords(w) ==
    /\ pc[w] = "filled"
    /\ processed_records_data[w] = << >>
    /\ Return(w, [SessionAfterDelete(session[w])
                     EXCEPT !.status = NoDataStatus], "true", "no_records")

\* services.py:239-242: call the calculator; None (its internal fault)
\* raises into the second handler.
Calculate(w) ==
    /\ pc[w] = "filled"
    /\ processed_records_data[w] # << >>
    /\ calculator_calls' = [calculator_calls EXCEPT ![w] = @ + 1]
    /\ \E fault \in BOOLEAN :
          IF fault
          THEN /\ pc' = [pc EXCEPT ![w] = "exception"]
               /\ UNCHANGED power_curve_data
          ELSE /\ pc' = [pc EXCEPT ![w] = "calculated"]
               /\ power_curve_data' =
                     [power_curve_data EXCEPT ![w] =
                         perform_power_curve_calculation(
                             processed_records_data[w])]
    /\ UNCHANGED << store, file_id, session, processed_records_data,
                    interrupted, invocations, last_good, runs, direct,
                    returned >>

\* services.py:243-252: an empty curve commits 'processed' with the points
\* deleted; otherwise the old points are deleted in the open transaction.
DeleteOldPoints(w) ==
    /\ pc[w] = "calculated"
    /\ IF power_curve_data[w] = << >>
       THEN Return(w, [SessionAfterDelete(session[w])
                          EXCEPT !.status = NoDataStatus], "true",
                   "empty_curve")
       ELSE /\ session' = [session EXCEPT ![w] = SessionAfterDelete(@)]
            /\ pc' = [pc EXCEPT ![w] = "deleted"]
            /\ power_curve_point' =
                  [power_curve_point EXCEPT ![file_id[w]] =
                      VisibleBeforeCommit(@, session'[w])]
            /\ UNCHANGED << next_id, processing_status, fit_dir, file_id,
                            local, interrupted, invocations, last_good,
                            runs, meta, direct,
                            returned >>

\* services.py:254-264: one new row per item of the curve, handed to
\* bulk_save_objects inside the same transaction.
BulkSave(w) ==
    /\ pc[w] = "deleted"
    /\ session' = [session EXCEPT ![w].new_points =
                      @ (+) PointsOf(power_curve_data[w])]
    /\ pc' = [pc EXCEPT ![w] = "saved"]
    /\ power_curve_point' =
          [power_curve_point EXCEPT ![file_id[w]] =
              VisibleBeforeCommit(@, session'[w])]
    /\ UNCHANGED << next_id, processing_status, fit_dir, file_id, local,
                    interrupted, invocations, last_good, runs, meta, direct,
                    returned >>

\* services.py:266-270: commit 'processed' together with the delete and the
\* new rows, return True.
CommitProcessed(w) ==
    /\ pc[w] = "saved"
    /\ Return(w, [session[w] EXCEPT !.status = Processed], "true", "saved")

\* services.py:272-280: FitError: roll back, commit 'analysis_failed',
\* return False.
ExceptFitError(w) ==
    /\ pc[w] = "fit_error"
    /\ Return(w, [EmptySession EXCEPT !.status = Failed], "false",
              "fit_error")

\* Variant: the handler rolls back and returns without committing a status.
ExceptException_NoStatus(w) ==
    /\ pc[w] = "exception"
    /\ Return(w, EmptySession, "false", "calc_none")

\* services.py:281-289: any other exception: roll back, commit
\* 'analysis_failed', return False.
ExceptException(w) ==
    /\ pc[w] = "exception"
    /\ Return(w, [EmptySession EXCEPT !.status = Failed], "false",
              "calc_none")

\* The host process dies inside an invocation: the open transaction is
\* rolled back by the database, what was committed stays.
Crash(w) ==
    /\ pc[w] \notin {"idle", "start"}
    /\ EndOfCall(w)
    /\ interrupted' = interrupted \cup {file_id[w]}
    /\ UNCHANGED << store, invocations, last_good, runs, direct,
                    returned >>

\* ------------------------------------------------------------ aggregation
\* get_user_power_curve (analysis/routes.py:23-92) for the logged-in user and
\* a date range.

\* str(duration): the decimal digits of a positive integer.
RECURSIVE str(_)
str(n) == IF n < 10 THEN << n >> ELSE str(n \div 10) \o << n % 10 >>

\* round(power, 1) of a stored value given in thousandths of a watt, in
\* tenths of a watt.  A stored value ending in 50 thousandths is a multiple
\* of a quarter watt, which a float holds exactly: the tie goes to the even
\* tenth.
round1(power) ==
    LET q == power \div 100
        r == power % 100
    IN  IF r > 50 \/ (r = 50 /\ q % 2 = 1) THEN q + 1 ELSE q

\* Variant: the status of a recording is not looked at.
processed_file_ids_AnyStatus(status, owner, date, user, start_date, end_date) ==
    { f \in FileIds :
         /\ status[f] # Absent
         /\ owner[f] = user
         /\ date[f] # None
         /\ date[f] >= start_date
         /\ date[f] <= end_date }

\* Variant: the range is open at its start.
processed_file_ids_OpenStart(status, owner, date, user, start_date, end_date) ==
    { f \in FileIds :
         /\ status[f] # Absent
         /\ owner[f] = user
         /\ date[f] # None
         /\ date[f] > start_date
         /\ date[f] <= end_date
         /\ status[f] = Processed }

\* Variant: the owner of a recording is not looked at.
processed_file_ids_AnyOwner(status, owner, date, user, start_date, end_date) ==
    { f \in FileIds :
         /\ status[f] # Absent
         /\ date[f] # None
         /\ date[f] >= start_date
         /\ date[f] <= end_date
         /\ status[f] = Processed }

\* routes.py:49-55: the ids of the user's processed recordings dated inside
\* the range, read from the columns processing_status, user_id and
\* activity_date of fit_file; a comparison with a NULL date is not true.
processed_file_ids(status, owner, date, user, start_date, end_date) ==
    { f \in FileIds :
         /\ status[f] # Absent
         /\ owner[f] = user
         /\ date[f] # None
         /\ date[f] >= start_date
         /\ date[f] <= end_date
         /\ status[f] = Processed }

\* routes.py:66-77: the rows of power_curve_point of these recordings
\* grouped by duration_seconds, each group with its
\* func.max(max_power_watts).
aggregated_results(points, ids) ==
    LET rows == UNION { BagToSet(points[f]) : f \in ids }
    IN  { << d, SetMax({ r[2] : r \in { q \in rows : q[1] = d } }) >>
          : d \in { r[1] : r \in rows } }

\* routes.py:85: {str(duration): round(power, 1)} as a set of key/value
\* pairs.
final_power_curve(results) ==
    { << str(r[1]), round1(r[2]) >> : r \in results }

Answer(user, start_date, end_date, status, body) ==
    [user |-> user, startDate |-> start_date, endDate |-> end_date,
     status |-> status, body |-> body]

\* routes.py:57-88 on given tables: no qualifying recording or no point
\* gives the empty mapping, otherwise the converted maxima.
power_curve_of(status, owner, date, points, user, start_date, end_date) ==
    final_power_curve(aggregated_results(points,
        processed_file_ids(status, owner, date, user, start_date, end_date)))

\* Variant: a request that finds no qualifying recording is refused.
get_user_power_curve_RefusesNoFiles(user, start_date, end_date) ==
    /\ response' =
          IF \/ start_date > end_date
             \/ processed_file_ids(processing_status, user_id, activity_date,
                                   user, start_date, end_date) = {}
          THEN Answer(user, start_date, end_date, BadRequest, {})
          ELSE Answer(user, start_date, end_date, Ok,
                      power_curve_of(processing_status, user_id,
                                     activity_date, power_curve_point,
                                     user, start_date, end_date))
    /\ UNCHANGED << store, pc, file_id, session, local, interrupted,
                    invocations, last_good, runs, records_data, result,
                    returned >>

\* Variant: the request clears the points of the failed recordings it
\* comes across.
get_user_power_curve_PurgesFailed(user, start_date, end_date) ==
    /\ response' =
          IF start_date > end_date
          THEN Answer(user, start_date, end_date, BadRequest, {})
          ELSE Answer(user, start_date, end_date, Ok,
                      power_curve_of(processing_status, user_id,
                                     activity_date, power_curve_point,
                                     user, start_date, end_date))
    /\ power_curve_point' =
          [f \in FileIds |-> IF processing_status[f] = Failed THEN EmptyBag
                             ELSE power_curve_point[f]]
    /\ UNCHANGED << next_id, processing_status, fit_dir, meta, pc, file_id,
                    session, local, interrupted, invocations, last_good,
                    runs, records_data, result,
                    returned >>

\* routes.py:43-88: a range that ends before it starts is refused;
\* otherwise the mapping is answered with success.  The request changes
\* nothing in the store.
get_user_power_curve(user, start_date, end_date) ==
    /\ response' =
          IF start_date > end_date
          THEN Answer(user, start_date, end_date, BadRequest, {})
          ELSE Answer(user, start_date, end_date, Ok,
                      power_curve_of(processing_status, user_id,
                                     activity_date, power_curve_point,
                                     user, start_date, end_date))
    /\ UNCHANGED << store, pc, file_id, session, local, interrupted,
                    invocations, last_good, runs, records_data, result,
                    returned >>

Next ==
    \/ \E w \in Workers, file \in UploadedFiles :
          upload_file(w, file, Uploader, UploadDay)
    \/ \E w \in Workers, id \in FileIds, file \in DiskContents :
          reprocess(w, id, file)
    \/ \E f \in FileIds : delete_file(Uploader, f)
    \/ \E w \in Workers : Begin(w)
    \/ \E w \in Workers : FileNotFound(w)
    \/ \E w \in Workers : ReadRecords(w)
    \/ \E w \in Workers : NoRecords(w)
    \/ \E w \in Workers : Calculate(w)
    \/ \E w \in Workers : DeleteOldPoints(w)
    \/ \E w \in Workers : BulkSave(w)
    \/ \E w \in Workers : CommitProcessed(w)
    \/ \E w \in Workers : ExceptFitError(w)
    \/ \E w \in Workers : ExceptException(w)
    \/ \E w \in Workers : Crash(w)

Spec == Init /\ [][Next]_vars

TypeOK ==
    /\ next_id \in 1..(NumFiles + 1)
    /\ \A f \in FileIds : processing_status[f] \in Statuses \cup {Absent}
    /\ \A f \in FileIds : fit_dir[f] \in DiskContents
    /\ invocations \in 0..MaxInvocations

\* ------------------------------------------------------------- properties
HasRun(f) == runs[f] # << >>
LastRun(f) == runs[f][Len(runs[f])]

\* The committed points of the recording just before its last completed run:
\* those left by the run before it, or none for a first run.
PointsBeforeLastRun(f) ==
    IF Len(runs[f]) = 2 THEN runs[f][1].points ELSE EmptyBag

\* The file of a run held no valid sample.
NoValidSamples(file) ==
    file.present /\ file.readable /\ ValidRecords(file.frames) = << >>

\* C1: a run that ends with the calculator returning None leaves the
\* recording analysis_failed, returns False and leaves it no points, whatever
\* the recording's state was before.
C1_FaultLeavesNoPoints ==
    \A f \in FileIds :
        (HasRun(f) /\ LastRun(f).why = "calc_none")
        => /\ LastRun(f).status = Failed
           /\ LastRun(f).result = "false"
           /\ LastRun(f).points = EmptyBag

\* C2: while a recording that has been processed before is being reprocessed
\* and its committed status is processing, it owns no points of the earlier
\* run.
C2_ReprocessingStartsClean ==
    \A f \in FileIds :
        (HasRun(f) /\ Busy(f) /\ processing_status[f] = Processing)
        => power_curve_point[f] = EmptyBag

\* C3: a run in which the calculator returned a non-empty curve returns True
\* with status processed, and the recording's points are then exactly one row
\* per key of the curve, carrying that key's value, and nothing else.
C3_SavesExactlyTheCurve ==
    \A f \in FileIds :
        (HasRun(f) /\ LastRun(f).curve # << >>)
        => /\ LastRun(f).result = "true"
           /\ LastRun(f).status = Processed
           /\ \A d \in DOMAIN LastRun(f).curve :
                 CopiesIn(<< d, LastRun(f).curve[d] >>, LastRun(f).points) = 1
           /\ BagCardinality(LastRun(f).points)
                 = Cardinality(DOMAIN LastRun(f).curve)

\* C3 witness: a recording that owned other points before was reprocessed
\* with a non-empty curve.
C3_Witness ==
    \E f \in FileIds :
        /\ Len(runs[f]) = 2
        /\ runs[f][1].points # EmptyBag
        /\ runs[f][2].curve # << >>
        /\ runs[f][2].curve # runs[f][1].curve
        /\ power_curve_point[f] = runs[f][2].points

\* C4: an invocation that is interrupted between its start and its final
\* commit does not leave the committed status at processing.
C4_CrashNeverLeavesProcessing ==
    \A f \in interrupted : processing_status[f] # Processing

\* C5: in every committed state a recording's points are empty, or the
\* complete set of its last successful run, or the complete set of the run in
\* progress; never part of a set and never old and new rows together.
C5_NeverPartialPoints ==
    \A f \in FileIds :
        \/ power_curve_point[f] = EmptyBag
        \/ power_curve_point[f] = last_good[f]
        \/ \E w \in Workers :
              /\ Active(w, f)
              /\ power_curve_point[f] = PointsOf(power_curve_data[w])

\* C5 witness: a reprocessing has deleted and re-inserted inside its open
\* transaction while the committed store still shows the previous run's
\* points, which differ from the new ones.
C5_Witness ==
    \E w \in Workers :
        /\ pc[w] = "saved"
        /\ session[w].deleted
        /\ session[w].new_points # EmptyBag
        /\ power_curve_point[file_id[w]] # EmptyBag
        /\ power_curve_point[file_id[w]] # session[w].new_points

\* C6: a status only ever changes to processing, or from processing to
\* processed or analysis_failed; and past its first commit an invocation has
\* the status at processing until it commits the outcome.
C6_Transition ==
    /\ \A f \in FileIds :
          (/\ processing_status[f] # Absent
           /\ processing_status'[f] # Absent
           /\ processing_status'[f] # processing_status[f])
          => \/ processing_status'[f] = Processing
             \/ /\ processing_status[f] = Processing
                /\ processing_status'[f] \in {Processed, Failed}
    /\ \A w \in Workers :
          pc'[w] \notin {"idle", "start"}
          => processing_status'[file_id'[w]] = Processing

C6_StateMachine == [][C6_Transition]_vars

\* C6 witness: a recording went through processing to processed and, when
\* reprocessed, through processing to analysis_failed.
C6_Witness ==
    \E f \in FileIds :
        /\ Len(runs[f]) = 2
        /\ runs[f][1].status = Processed
        /\ runs[f][2].status = Failed
        /\ processing_status[f] = Failed

\* C7: the store never holds two points of one recording for the same
\* duration.
C7_OnePointPerDuration ==
    \A f \in FileIds :
        \A d \in Range(window_durations) :
            RowsAt(power_curve_point[f], d) <= 1

\* C7 witness: a recording processed twice with a non-empty curve owns
\* points after the reprocessing.
C7_Witness ==
    \E f \in FileIds :
        /\ Len(runs[f]) = 2
        /\ runs[f][1].why = "saved"
        /\ runs[f][2].why = "saved"
        /\ power_curve_point[f] # EmptyBag

\* C8: two successful runs in a row on the same file leave the same points
\* and the same status after the second as after the first.
C8_Idempotent ==
    \A f \in FileIds :
        (/\ Len(runs[f]) = 2
         /\ runs[f][1].file = runs[f][2].file
         /\ runs[f][1].result = "true"
         /\ runs[f][2].result = "true")
        => /\ runs[f][2].points = runs[f][1].points
           /\ runs[f][2].status = runs[f][1].status

\* C8 witness: a recording with points was processed twice on the same file.
C8_Witness ==
    \E f \in FileIds :
        /\ Len(runs[f]) = 2
        /\ runs[f][1].file = runs[f][2].file
        /\ runs[f][1].result = "true"
        /\ runs[f][2].result = "true"
        /\ runs[f][2].points # EmptyBag

\* C9: a run on a file without valid samples, or one whose calculator returned
\* an empty curve, returns True with status processed and no points.
C9_NoDataIsProcessed ==
    \A f \in FileIds :
        (HasRun(f) /\ (\/ NoValidSamples(LastRun(f).file)
                       \/ LastRun(f).why = "empty_curve"))
        => /\ LastRun(f).result = "true"
           /\ LastRun(f).status = Processed
           /\ LastRun(f).points = EmptyBag

\* C9 witness: a recording that owned points was reprocessed on a file
\* without valid samples.
C9_Witness ==
    \E f \in FileIds :
        /\ Len(runs[f]) = 2
        /\ runs[f][1].points # EmptyBag
        /\ NoValidSamples(runs[f][2].file)
        /\ power_curve_point[f] = EmptyBag
        /\ processing_status[f] = Processed

\* C10: a run that finds no file at the recording's path returns False with
\* status analysis_failed, never calls the calculator and leaves the
\* recording's points as they were.
C10_MissingFileFails ==
    \A f \in FileIds :
        (HasRun(f) /\ ~LastRun(f).file.present)
        => /\ LastRun(f).result = "false"
           /\ LastRun(f).status = Failed
           /\ LastRun(f).calls = 0
           /\ LastRun(f).points = PointsBeforeLastRun(f)

\* C10 witness: an invocation found the file of an existing recording
\* missing.
C10_Witness ==
    \E f \in FileIds :
        /\ HasRun(f)
        /\ ~LastRun(f).file.present
        /\ LastRun(f).why = "file_missing"
        /\ processing_status[f] = Failed

\* The step deletes recording f.
DeleteStep(f) ==
    processing_status[f] # Absent /\ processing_status'[f] = Absent

\* What a request is answered from the recordings other than f.
BodyWithout(f, user, start_date, end_date) ==
    final_power_curve(aggregated_results(power_curve_point,
        processed_file_ids(processing_status, user_id, activity_date,
                           user, start_date, end_date) \ {f}))

\* After the step no point belongs to an id without a row, and a recording
\* the step deletes has left every aggregate: each request gets what the
\* other recordings alone gave before.
DeleteRemovesPoints ==
    /\ \A f \in FileIds :
          processing_status'[f] = Absent => power_curve_point'[f] = EmptyBag
    /\ \A f \in FileIds :
          DeleteStep(f)
          => \A user \in Users, start_date \in Days, end_date \in Days :
                power_curve_of(processing_status', user_id', activity_date',
                               power_curve_point', user, start_date, end_date)
                   = BodyWithout(f, user, start_date, end_date)

\* C23: deleting a recording deletes its points: through every sequence of
\* processing and deleting, every stored point belongs to an existing
\* recording, and from its deletion on a recording counts in no aggregate.
C23_DeleteRemovesPoints == [][DeleteRemovesPoints]_vars

\* C23 witness: a recording has been deleted while another one of the same
\* user and day is processed and owns points: these alone make up the
\* user's aggregate.
C23_Witness ==
    \E f \in FileIds, g \in FileIds :
        /\ f < next_id
        /\ processing_status[f] = Absent
        /\ power_curve_point[f] = EmptyBag
        /\ processing_status[g] = Processed
        /\ power_curve_point[g] # EmptyBag
        /\ power_curve_of(processing_status, user_id, activity_date,
                          power_curve_point, Uploader, UploadDay, UploadDay)
              = final_power_curve(BagToSet(power_curve_point[g]))

\* What one invocation on its own leaves of a recording that owned the
\* points 'before': the status and the points that follow from the file it
\* finds and from whether the calculator fails.
OutcomeAlone(file, fault, before) ==
    IF ~file.present \/ ~file.readable
    THEN [status |-> Failed, points |-> before]
    ELSE IF ProcessedRecords(file.frames) = << >>
    THEN [status |-> Processed, points |-> EmptyBag]
    ELSE IF fault
    THEN [status |-> Failed, points |-> before]
    ELSE [status |-> Processed,
          points |-> PointsOf(perform_power_curve_calculation(
                                 ProcessedRecords(file.frames)))]

\* A recording nobody works on, whose last invocation returned, is as that
\* invocation alone leaves it.
EndsAsAlone(status, points, history, cut_off, in_work) ==
    \A f \in FileIds :
        (history[f] # << >> /\ f \notin in_work /\ f \notin cut_off)
        => LET last == history[f][Len(history[f])]
               before == IF Len(history[f]) = 2 THEN history[f][1].points
                         ELSE EmptyBag
               alone == OutcomeAlone(last.file, last.why = "calc_none", before)
           IN  /\ status[f] = alone.status
               /\ points[f] = alone.points
               /\ last.status = alone.status
               /\ last.points = alone.points

\* A step of a worker inside an invocation leaves the status and the
\* points of every other recording as they are.
TouchesOwnRecordingOnly ==
    \A w \in Workers :
        (pc[w] # "idle" /\ pc'[w] # pc[w])
        => \A f \in FileIds \ {file_id[w]} :
              /\ processing_status'[f] = processing_status[f]
              /\ power_curve_point'[f] = power_curve_point[f]

\* C24: invocations on different recordings do not interfere: no step of
\* one changes the status or the points of another recording, and however
\* the steps interleave each recording ends with the status and the points
\* its own invocation gives when run alone.
C24_ConcurrentAsAlone ==
    [][/\ TouchesOwnRecordingOnly
       /\ EndsAsAlone(processing_status', power_curve_point', runs',
                      interrupted', { file_id'[w] : w \in Workers })]_vars

\* C24 witness: the invocation started by the upload of one recording is
\* still inside its transaction while a recording uploaded after it has
\* been processed to the end and owns its points.
C24_Witness ==
    \E w \in Workers, g \in FileIds :
        /\ pc[w] = "saved"
        /\ file_id[w] < g
        /\ runs[file_id[w]] = << >>
        /\ invocations = 2
        /\ HasRun(g)
        /\ LastRun(g).why = "saved"
        /\ power_curve_point[g] = PointsOf(LastRun(g).curve)
        /\ power_curve_point[g] # session[w].new_points

\* ------------------------------------------------- aggregation, explored
\* The aggregation is a read of the store: it is explored from every store
\* the processor can leave behind for a few recordings, with requests and
\* deletions.

\* Recordings whose curves differ in where each is the larger one,
\* {1: 300, 2: 150} and {1: 200, 2: 200, 3: 166.667}, and one that is larger
\* than both, {1: 400}.
AggPayloads ==
    { << Rec(0, 300), Rec(2, 0) >>,
      << Rec(0, 200), Rec(2, 200), Rec(4, 100) >> }

LargerPayload == << Rec(0, 400) >>

CurvePoints(payload) ==
    PointsOf(perform_power_curve_calculation(ProcessedRecords(payload)))

\* What a processed recording can own: nothing, or the points of its file.
StoredPoints == {EmptyBag} \cup { CurvePoints(p) : p \in AggPayloads }

Row(status, user, day, points) ==
    [status |-> status, user |-> user, day |-> day, points |-> points]

\* A row of fit_file with its points, or no row: processed recordings of
\* every user on every day; and, for one user, a recording still pending
\* (never processed, owning nothing), and a failed, an interrupted and an
\* undated processed one that own the larger points.
StoredRows ==
    { Row(Absent, NoUser, None, EmptyBag) }
    \cup { Row(Processed, u, d, pts) :
               u \in Users, d \in Days, pts \in StoredPoints }
    \cup { Row(Pending, Uploader, UploadDay, EmptyBag),
            Row(Failed, Uploader, UploadDay, CurvePoints(LargerPayload)),
            Row(Processing, Uploader, UploadDay, CurvePoints(LargerPayload)),
            Row(Processed, Uploader, None, CurvePoints(LargerPayload)) }

InitAgg ==
    /\ \E rows \in [FileIds -> StoredRows] :
          /\ processing_status = [f \in FileIds |-> rows[f].status]
          /\ power_curve_point = [f \in FileIds |-> rows[f].points]
          /\ user_id = [f \in FileIds |-> rows[f].user]
          /\ activity_date = [f \in FileIds |-> rows[f].day]
    /\ next_id = NumFiles + 1
    /\ fit_dir = [f \in FileIds |-> NoFile]
    /\ pc = [w \in Workers |-> "idle"]
    /\ file_id = [w \in Workers |-> NoCall]
    /\ session = [w \in Workers |-> EmptySession]
    /\ processed_records_data = [w \in Workers |-> << >>]
    /\ power_curve_data = [w \in Workers |-> << >>]
    /\ calculator_calls = [w \in Workers |-> 0]
    /\ interrupted = {}
    /\ invocations = 0
    /\ last_good = [f \in FileIds |-> EmptyBag]
    /\ runs = [f \in FileIds |-> << >>]
    /\ response = NoResponse
    /\ records_data = << >>
    /\ result = NotCalled
    /\ returned = None

NextAgg ==
    \/ \E user \in Users, start_date \in Days, end_date \in Days :
          get_user_power_curve(user, start_date, end_date)
    \/ \E user \in Users, f \in FileIds : delete_file(user, f)

SpecAgg == InitAgg /\ [][NextAgg]_vars

\* A step that answers an aggregation request: the one the new answer
\* names.
RequestStep ==
    /\ response'.status # None
    /\ get_user_power_curve(response'.user, response'.startDate,
                            response'.endDate)

\* The requesting user's processed recordings dated inside the answered
\* request's range.
InsideRange(f) ==
    /\ processing_status[f] = Processed
    /\ user_id[f] = response.user
    /\ activity_date[f] \in response.startDate..response.endDate

\* The values stored at duration d for the recordings counted.
StoredAt(d) ==
    { r[2] : r \in { q \in UNION { BagToSet(power_curve_point[f])
                                    : f \in { g \in FileIds : InsideRange(g) } }
                       : q[1] = d } }

\* The answered mapping has a key for d.
Contains(d) == \E kv \in response.body : kv[1] = str(d)

\* Every key of the answered mapping is a configured duration, once.
KeysAreDurations ==
    \A kv \in response.body :
        /\ \E d \in Range(window_durations) : kv[1] = str(d)
        /\ \A other \in response.body : other[1] = kv[1] => other = kv

\* C11 as stated: the answer holds d exactly when a counted recording has a
\* point at d, with the largest stored value itself.
C11_AnswerIsStoredMax ==
    response.status = Ok
    => /\ KeysAreDurations
       /\ \A d \in Range(window_durations) :
             /\ Contains(d) <=> StoredAt(d) # {}
             /\ \A kv \in response.body :
                   kv[1] = str(d) => kv[2] * 100 = SetMax(StoredAt(d))

C11_Original == [][RequestStep => C11_AnswerIsStoredMax']_vars

\* C11 (amended): the answer holds d exactly when a counted recording has a
\* point at d, and its value is the largest stored value at d rounded to
\* one decimal place, i.e. within 0.05 W of it.
C11_AnswerIsRoundedMax ==
    response.status = Ok
    => /\ KeysAreDurations
       /\ \A d \in Range(window_durations) :
             /\ Contains(d) <=> StoredAt(d) # {}
             /\ \A kv \in response.body :
                   kv[1] = str(d)
                   => /\ kv[2] * 100 - SetMax(StoredAt(d)) <= 50
                      /\ SetMax(StoredAt(d)) - kv[2] * 100 <= 50

C11_AggregateIsRoundedMax == [][RequestStep => C11_AnswerIsRoundedMax']_vars

\* C11 witness: an answer built from two counted recordings, dated on the
\* first and on the last day of the range, each the larger at some duration,
\* with a value that the rounding changed.
C11_Witness ==
    /\ response.status = Ok
    /\ \E f \in FileIds, g \in FileIds :
          /\ InsideRange(f) /\ InsideRange(g)
          /\ activity_date[f] = response.startDate
          /\ activity_date[g] = response.endDate
          /\ response.startDate < response.endDate
          /\ \E d \in Range(window_durations), e \in Range(window_durations) :
                /\ StoredAt(d) # {} /\ StoredAt(e) # {}
                /\ << d, SetMax(StoredAt(d)) >> \in BagToSet(power_curve_point[f])
                /\ << d, SetMax(StoredAt(d)) >>
                      \notin BagToSet(power_curve_point[g])
                /\ << e, SetMax(StoredAt(e)) >> \in BagToSet(power_curve_point[g])
                /\ << e, SetMax(StoredAt(e)) >>
                      \notin BagToSet(power_curve_point[f])
    /\ \E kv \in response.body : kv[2] * 100 \notin UNION
          { { r[2] : r \in BagToSet(power_curve_point[f]) } : f \in FileIds }

\* The status and the date of a row let the request of an answer count it.
RowCounted(row, answer) ==
    /\ row.status = Processed
    /\ row.day \in answer.startDate..answer.endDate

\* The row of fit_file with id f, with its points.
RowOf(f) ==
    Row(processing_status[f], user_id[f], activity_date[f],
        power_curve_point[f])

\* The mapping the request of an answer would get if recording f were the
\* given row with its points.
BodyWith(f, row, answer) ==
    power_curve_of([processing_status EXCEPT ![f] = row.status],
                   [user_id EXCEPT ![f] = row.user],
                   [activity_date EXCEPT ![f] = row.day],
                   [power_curve_point EXCEPT ![f] = row.points],
                   answer.user, answer.startDate, answer.endDate)

\* The answer is the same whatever uncounted recording stands in the place
\* of an uncounted recording, with whatever points, or none at all.
IgnoresUncounted(answer) ==
    answer.status = Ok
    => \A f \in FileIds :
          ~RowCounted(RowOf(f), answer)
          => \A row \in StoredRows :
                ~RowCounted(row, answer)
                => answer.body = BodyWith(f, row, answer)

\* C12: a recording that is not processed or is dated outside the range
\* does not influence the answer to a request: adding, removing or changing
\* it or its points leaves the answer as it is.
C12_UncountedNeverInfluences ==
    [][RequestStep => IgnoresUncounted(response')]_vars

\* C12 witness: a non-empty answer while the requesting user has a failed
\* recording dated inside the range whose points are larger than the
\* answered value.
C12_Witness ==
    /\ response.status = Ok
    /\ response.body # {}
    /\ \E f \in FileIds :
          /\ processing_status[f] = Failed
          /\ user_id[f] = response.user
          /\ activity_date[f] \in response.startDate..response.endDate
          /\ \E r \in BagToSet(power_curve_point[f]) :
                \E kv \in response.body :
                    kv[1] = str(r[1]) /\ kv[2] * 100 < r[2]

\* The answer is the same whatever recording of another user, or none,
\* stands in the place of a recording that is not the requesting user's.
IgnoresOtherUsers(answer) ==
    answer.status = Ok
    => \A f \in FileIds :
          user_id[f] # answer.user
          => \A row \in StoredRows :
                row.user # answer.user
                => answer.body = BodyWith(f, row, answer)

\* C29: the answer to a request is computed from the requesting user's
\* recordings only: adding, removing or changing a recording of another
\* user or its points, processed and dated inside the range or not, leaves
\* the answer as it is.
C29_OtherUsersNeverInfluence ==
    [][RequestStep => IgnoresOtherUsers(response')]_vars

\* C29 witness: a non-empty answer while another user has a processed
\* recording dated inside the range whose points are larger than the
\* answered value.
C29_Witness ==
    /\ response.status = Ok
    /\ response.body # {}
    /\ \E f \in FileIds :
          /\ processing_status[f] = Processed
          /\ user_id[f] \in Users \ {response.user}
          /\ activity_date[f] \in response.startDate..response.endDate
          /\ \E r \in BagToSet(power_curve_point[f]) :
                \E kv \in response.body :
                    kv[1] = str(r[1]) /\ kv[2] * 100 < r[2]

\* Recording f is one of those the request of an answer asks for.
Qualifies(f, answer) ==
    /\ RowCounted(RowOf(f), answer)
    /\ user_id[f] = answer.user

\* A request with a proper range that finds no qualifying recording, or
\* only qualifying recordings without points, is answered with success and
\* the empty mapping.
EmptyOnNoData(answer) ==
    (/\ answer.startDate <= answer.endDate
     /\ \A f \in FileIds :
           Qualifies(f, answer) => power_curve_point[f] = EmptyBag)
    => /\ answer.status = Ok
       /\ answer.body = {}

\* C13: the aggregation does not fail for want of recordings or points: if
\* no recording qualifies, or the qualifying ones have no points, the answer
\* is the empty mapping with a success status.
C13_NoDataIsEmptySuccess ==
    [][RequestStep => EmptyOnNoData(response')]_vars

\* C13 witness: an empty successful answer where the only qualifying
\* recording has no points while a failed recording of the same user has
\* some.
C13_Witness ==
    /\ response.status = Ok
    /\ response.body = {}
    /\ \E f \in FileIds, g \in FileIds :
          /\ Qualifies(f, response)
          /\ power_curve_point[f] = EmptyBag
          /\ processing_status[g] = Failed
          /\ user_id[g] = response.user
          /\ power_curve_point[g] # EmptyBag

\* The invocation of worker w, started for an identifier that matches no
\* row of fit_file, takes its step.
NotFoundStep(w) ==
    /\ pc[w] = "start"
    /\ processing_status[file_id[w]] = Absent
    /\ pc'[w] # "start"

\* C30: an invocation for an identifier that matches no recording returns
\* False and ends there, and the store is as before: no status, no point,
\* no file, no owner or date and no key has changed.
C30_NotFoundLeavesStore ==
    [][\A w \in Workers :
          NotFoundStep(w)
          => /\ returned' = "false"
             /\ pc'[w] = "idle"
             /\ processing_status' = processing_status
             /\ power_curve_point' = power_curve_point
             /\ fit_dir' = fit_dir
             /\ user_id' = user_id
             /\ activity_date' = activity_date
             /\ next_id' = next_id]_vars

\* C30 witness: the only recording ever uploaded was processed by its one
\* completed run and owns points, and the last invocation that returned,
\* one for another identifier, returned False.
C30_Witness ==
    /\ next_id = 2
    /\ processing_status[1] = Processed
    /\ power_curve_point[1] # EmptyBag
    /\ Len(runs[1]) = 1
    /\ runs[1][1].result = "true"
    /\ returned = "false"
    /\ \A w \in Workers : pc[w] = "idle"

\* ------------------------------------------- invocations run to their end
\* The processor invoked on recordings that exist, in every status a
\* recording can be found in: never processed, left in processing by an
\* invocation that was cut off, processed, and failed.  The thread that runs
\* an invocation is scheduled until the function returns: the code has no
\* wait and no loop but those over the frames of the file, so each worker's
\* steps are weakly fair.
PriorRows ==
    << Row(Pending, Uploader, UploadDay, EmptyBag),
       Row(Processing, Uploader, UploadDay, CurvePoints(LargerPayload)),
       Row(Processed, Uploader, UploadDay, CurvePoints(LargerPayload)),
       Row(Failed, Uploader, UploadDay, EmptyBag) >>

\* The recordings are found in statuses that differ from one to the next;
\* each recording is found in each status.
PriorTables ==
    { [f \in FileIds |-> PriorRows[((f + k) % Len(PriorRows)) + 1]]
      : k \in 1..Len(PriorRows) }

\* What lies at the paths of the recordings: nothing, a file that cannot
\* be decoded, or a file with at most one sample; these take every branch
\* of the processor.
LiveContents ==
    { file \in DiskContents : Len(ValidRecords(file.frames)) <= 1 }

InitLive ==
    /\ \E rows \in PriorTables :
          /\ processing_status = [f \in FileIds |-> rows[f].status]
          /\ power_curve_point = [f \in FileIds |-> rows[f].points]
          /\ last_good = [f \in FileIds |-> rows[f].points]
          /\ user_id = [f \in FileIds |-> rows[f].user]
          /\ activity_date = [f \in FileIds |-> rows[f].day]
          /\ interrupted = { f \in FileIds : rows[f].status = Processing }
    /\ next_id = NumFiles + 1
    /\ \E file \in LiveContents : fit_dir = [f \in FileIds |-> file]
    /\ pc = [w \in Workers |-> "idle"]
    /\ file_id = [w \in Workers |-> NoCall]
    /\ session = [w \in Workers |-> EmptySession]
    /\ processed_records_data = [w \in Workers |-> << >>]
    /\ power_curve_data = [w \in Workers |-> << >>]
    /\ calculator_calls = [w \in Workers |-> 0]
    /\ invocations = 0
    /\ runs = [f \in FileIds |-> << >>]
    /\ response = NoResponse
    /\ records_data = << >>
    /\ result = NotCalled
    /\ returned = None

\* A step of the invocation that worker w is in.
ProcessorStep(w) ==
    \/ Begin(w)
    \/ FileNotFound(w)
    \/ ReadRecords(w)
    \/ NoRecords(w)
    \/ Calculate(w)
    \/ DeleteOldPoints(w)
    \/ BulkSave(w)
    \/ CommitProcessed(w)
    \/ ExceptFitError(w)
    \/ ExceptException(w)

\* The processor is invoked on what lies at the recording's path.
NextLive ==
    \/ \E w \in Workers, id \in FileIds : reprocess(w, id, fit_dir[id])
    \/ \E w \in Workers : ProcessorStep(w)

SpecLive ==
    InitLive /\ [][NextLive]_vars
    /\ \A w \in Workers : WF_vars(ProcessorStep(w))

\* C25: an invocation on an existing recording, whatever status it starts
\* from, comes to its return with the recording processed or failed; a
\* recording whose invocation has returned is not in processing.
C25_InvocationEnds ==
    /\ \A w \in Workers, f \in FileIds :
          (file_id[w] = f /\ pc[w] = "start")
          ~> (file_id[w] # f /\ processing_status[f] \in {Processed, Failed})
    /\ [](\A f \in FileIds :
             HasRun(f)
             => /\ LastRun(f).status \in {Processed, Failed}
                /\ ~Busy(f) => processing_status[f] = LastRun(f).status)

\* C25 witness: a recording found in processing, left there by an
\* invocation that was cut off, has been processed again twice: the first
\* invocation left it failed, the second processed.
C25_Witness ==
    \E f \in FileIds :
        /\ Len(runs[f]) = 2
        /\ runs[f][1].status = Failed
        /\ runs[f][1].points # EmptyBag
        /\ runs[f][2].status = Processed
        /\ processing_status[f] = Processed
        /\ ~Busy(f)

\* ------------------------------------------- requests while processing
\* The aggregation asked at any moment of the processor's runs: uploads,
\* reprocessing, deletions and crashes in every interleaving, and then
\* requests, which are the last thing looked at in a behaviour.  Every
\* recording here is dated on the day of the upload, which the requests
\* ask for.
NextRead ==
    \/ response = NoResponse /\ Next
    \/ \E user \in Users :
          get_user_power_curve(user, UploadDay, UploadDay)

SpecRead == Init /\ [][NextRead]_vars

\* The values committed at duration d for the processed recordings of a
\* user dated inside a range.
CommittedAt(d, user, start_date, end_date) ==
    { r[2] : r \in { q \in UNION { BagToSet(power_curve_point[f]) :
                                      f \in { g \in FileIds :
                                          /\ processing_status[g] = Processed
                                          /\ user_id[g] = user
                                          /\ activity_date[g] \in
                                                start_date..end_date } }
                       : q[1] = d } }

\* The mapping that the committed statuses, owners, dates and points
\* determine for a request.
CommittedBody(user, start_date, end_date) ==
    { << str(d), round1(SetMax(CommittedAt(d, user, start_date, end_date))) >>
      : d \in { e \in Range(window_durations) :
                  CommittedAt(e, user, start_date, end_date) # {} } }

\* A step that gives a new answer changes nothing but the answer: no row,
\* no point, no file, no session and no invocation; and the answer is the
\* one the committed tables determine.
ReadOnly(answer) ==
    /\ UNCHANGED << next_id, processing_status, power_curve_point, fit_dir,
                    user_id, activity_date >>
    /\ UNCHANGED << pc, file_id, session, processed_records_data,
                    power_curve_data, calculator_calls, interrupted,
                    invocations, last_good, runs, records_data, result,
                    returned >>
    /\ answer.status = Ok
       => answer.body = CommittedBody(answer.user, answer.startDate,
                                      answer.endDate)

\* C26: an aggregation request is read-only: it changes no status and no
\* point, stores nothing and starts no processing, and what it answers is
\* determined by the committed statuses, dates and points alone, whatever
\* files lie on disk and whatever the running invocations have not yet
\* committed.
C26_RequestIsReadOnly == [][response' # response => ReadOnly(response')]_vars

\* C26 witness: a request was answered from the committed points of one
\* recording while an invocation on another recording holds other points
\* in its open transaction.
C26_Witness ==
    /\ response.status = Ok
    /\ response.body # {}
    /\ \E w \in Workers, g \in FileIds :
          /\ pc[w] = "saved"
          /\ g # file_id[w]
          /\ session[w].new_points # EmptyBag
          /\ session[w].new_points # power_curve_point[g]
          /\ fit_dir[g].present
          /\ response.body
                = final_power_curve(BagToSet(power_curve_point[g]))

\* --------------------------------------------- the calculator, explored
\* _perform_power_curve_calculation called on its own, as the unit tests call
\* it, with every short list of rows: valid samples on a half-second grid in
\* any order, rows without a timestamp or without a power, and the examples
\* of the unit tests.  No timestamp occurs twice among the valid rows: the
\* processor hands over deduplicated records and no test does otherwise.
Powers == {0, 100, 250}
SampleRows == { Rec(t, p) : t \in 0..MaxTick, p \in Powers }
InvalidRows == { Rec(None, 100), Rec(0, None) }

RECURSIVE ListsOf(_, _)
ListsOf(rows, n) ==
    IF n = 0 THEN { << >> }
    ELSE LET shorter == ListsOf(rows, n - 1)
         IN  shorter \cup { Append(l, r) : l \in shorter, r \in rows }

DistinctTimestamps(rows) ==
    \A i \in 1..Len(rows), j \in 1..Len(rows) :
        (i # j /\ IsValidFrame(rows[i]) /\ IsValidFrame(rows[j]))
        => rows[i].timestamp # rows[j].timestamp

\* One sample per second from tick 0 with the given powers.
OnePerSecond(powers) ==
    [i \in 1..Len(powers) |-> Rec((i - 1) * TicksPerSecond, powers[i])]

\* test_calculations.py:128-134 and 212-223.
ExampleInputs ==
    { OnePerSecond(<< 100, 150, 120, 200, 180 >>),
      OnePerSecond(<< 100, 0, 100, 0, 100 >>) }

\* test_calculations.py:149-156: samples at 0 s and 3 s among rows with an
\* invalid power or an invalid timestamp.
InvalidTypesExample ==
    << Rec(0, 100), Rec(TicksPerSecond, None), Rec(None, 150),
       Rec(3 * TicksPerSecond, 200), Rec(4 * TicksPerSecond, None) >>

\* Powers that are not a whole number of thousandths of a watt: a single
\* sample of 0.4 mW, one of 0.6 mW, and 100 W next to 100.0004 W.
FineExamples ==
    { << FineRec(0, 4) >>,
      << FineRec(0, 6) >>,
      << Rec(0, 100), FineRec(TicksPerSecond, 1000004) >> }

CalculatorInputs ==
    { l \in ListsOf(SampleRows \cup InvalidRows, MaxRows) :
         DistinctTimestamps(l) }
    \cup ExampleInputs \cup {InvalidTypesExample} \cup FineExamples

InitCalc ==
    /\ records_data \in CalculatorInputs
    /\ result = NotCalled
    /\ returned = None
    /\ response = NoResponse
    /\ next_id = 1
    /\ processing_status = [f \in FileIds |-> Absent]
    /\ power_curve_point = [f \in FileIds |-> EmptyBag]
    /\ fit_dir = [f \in FileIds |-> NoFile]
    /\ user_id = [f \in FileIds |-> NoUser]
    /\ activity_date = [f \in FileIds |-> None]
    /\ pc = [w \in Workers |-> "idle"]
    /\ file_id = [w \in Workers |-> NoCall]
    /\ session = [w \in Workers |-> EmptySession]
    /\ processed_records_data = [w \in Workers |-> << >>]
    /\ power_curve_data = [w \in Workers |-> << >>]
    /\ calculator_calls = [w \in Workers |-> 0]
    /\ interrupted = {}
    /\ invocations = 0
    /\ last_good = [f \in FileIds |-> EmptyBag]
    /\ runs = [f \in FileIds |-> << >>]

\* The call returns the curve of its argument.
call_calculator ==
    /\ ~result.called
    /\ result' = [called |-> TRUE,
                  curve |-> perform_power_curve_calculation(records_data)]
    /\ UNCHANGED << store, pc, file_id, session, local, interrupted,
                    invocations, last_good, runs, response, records_data,
                    returned >>

NextCalc == call_calculator

SpecCalc == InitCalc /\ [][NextCalc]_vars

\* The samples of the call: its valid rows.
Samples == ValidRecords(records_data)

\* Every sample lies on a whole second.
WholeSeconds ==
    \A i \in 1..Len(Samples) : Samples[i].timestamp % TicksPerSecond = 0

\* C14 as stated: the curve does not rise with the duration.
C14_NonIncreasing ==
    result.called
    => \A d1 \in DOMAIN result.curve, d2 \in DOMAIN result.curve :
          d1 < d2 => result.curve[d1] >= result.curve[d2]

\* C14 (amended): for samples on distinct whole seconds the curve does not
\* rise from a duration to any of its multiples; in particular no value
\* exceeds the one-second value.
C14_NonIncreasingOnMultiples ==
    (result.called /\ WholeSeconds)
    => \A d1 \in DOMAIN result.curve, d2 \in DOMAIN result.curve :
          (d1 < d2 /\ d2 % d1 = 0) => result.curve[d1] >= result.curve[d2]

\* C14 witness: samples 100, 0, 100 one second apart: the three-second value
\* 66.667 lies above the two-second value 50 and below the one-second value.
C14_Witness ==
    /\ result.called
    /\ WholeSeconds
    /\ {1, 2, 3} \subseteq DOMAIN result.curve
    /\ result.curve[2] < result.curve[3]
    /\ result.curve[3] < result.curve[1]

\* The samples with a timestamp in the half-open window (t - d s, t].
InWindow(t, d) ==
    { i \in 1..Len(Samples) :
         /\ Samples[i].timestamp > t - d * TicksPerSecond
         /\ Samples[i].timestamp <= t }

\* The timestamps whose window of d seconds holds at least d samples.
FullWindows(d) ==
    { t \in { Samples[i].timestamp : i \in 1..Len(Samples) } :
         Cardinality(InWindow(t, d)) >= d }

PowerInWindow(t, d) ==
    SumSeq([i \in 1..Len(Samples) |->
               IF i \in InWindow(t, d) THEN Samples[i].power ELSE 0])

\* Value v, in thousandths of a watt, is the mean of the window rounded to
\* the nearest thousandth; the window's mean does not exceed v by more than
\* the rounding.
IsRoundedMeanOf(v, t, d) ==
    LET n == Cardinality(InWindow(t, d))
        diff == PowerInWindow(t, d) - n * v * UnitsPerMilli
    IN  2 * diff <= n * UnitsPerMilli /\ -2 * diff <= n * UnitsPerMilli

NotAbove(v, t, d) ==
    2 * PowerInWindow(t, d)
       <= Cardinality(InWindow(t, d)) * UnitsPerMilli * (2 * v + 1)

\* C16: every value of the curve is, up to the final rounding, the largest
\* mean power over the full windows of its duration; the samples 100, 150,
\* 120, 200, 180 give curve[1] = 200, curve[2] = 190 and curve[5] = 150.
C16_ValueIsMaxMean ==
    result.called
    => /\ \A d \in DOMAIN result.curve :
             /\ \E t \in FullWindows(d) :
                   IsRoundedMeanOf(result.curve[d], t, d)
             /\ \A t \in FullWindows(d) : NotAbove(result.curve[d], t, d)
       /\ records_data = OnePerSecond(<< 100, 150, 120, 200, 180 >>)
          => /\ result.curve[1] = 200 * MilliPerWatt
             /\ result.curve[2] = 190 * MilliPerWatt
             /\ result.curve[5] = 150 * MilliPerWatt

\* C16 witness: a curve with a value that is the mean of several samples,
\* larger than the mean of another full window of the same duration, and
\* not a whole number of thousandths before rounding.
C16_Witness ==
    /\ result.called
    /\ \E d \in DOMAIN result.curve :
          /\ d > 1
          /\ \E t \in FullWindows(d) : ~NotAbove(result.curve[d] - 1, t, d)
          /\ \E t \in FullWindows(d) : NotAbove(result.curve[d] - 2, t, d)
          /\ \E t \in FullWindows(d) :
                /\ IsRoundedMeanOf(result.curve[d], t, d)
                /\ PowerInWindow(t, d)
                      # Cardinality(InWindow(t, d)) * result.curve[d]
                           * UnitsPerMilli

\* The samples are n >= 1 samples exactly one second apart.
OneSecondApart ==
    /\ Samples # << >>
    /\ LET first == SetMax({ -Samples[i].timestamp : i \in 1..Len(Samples) })
       IN  { Samples[i].timestamp : i \in 1..Len(Samples) }
              = { k * TicksPerSecond - first : k \in 0..(Len(Samples) - 1) }

\* C17: for n samples exactly one second apart the keys of the curve are
\* the configured durations up to n and no others.
C17_KeysUpToLength ==
    (result.called /\ OneSecondApart)
    => DOMAIN result.curve
          = { d \in Range(window_durations) : d <= Len(Samples) }

\* C17 witness: three samples one second apart, handed over out of order,
\* give the keys 1, 2 and 3.
C17_Witness ==
    /\ result.called
    /\ OneSecondApart
    /\ Len(Samples) = 3
    /\ Samples # SortByTimestamp(Samples)
    /\ DOMAIN result.curve = {1, 2, 3}

\* Every row of the call lacks its timestamp or its power.
EveryRowInvalid ==
    \A i \in 1..Len(records_data) :
        records_data[i].timestamp = None \/ records_data[i].power = None

\* C18: called with no row, or with rows that are all invalid, the
\* calculator returns the empty mapping: no key, no zero value.
C18_EmptyOnNoValidRow ==
    (result.called /\ EveryRowInvalid) => result.curve = << >>

\* C18 witness: the calculator returned the empty mapping for a list that
\* holds a row without timestamp and a row without power.
C18_Witness ==
    /\ result.called
    /\ EveryRowInvalid
    /\ \E i \in 1..Len(records_data), j \in 1..Len(records_data) :
          /\ records_data[i].timestamp = None
          /\ records_data[j].power = None
    /\ result.curve = << >>

\* The rows of the call without those that lack a timestamp or a power.
Cleaned ==
    SelectSeq(records_data, LAMBDA r : r.timestamp # None /\ r.power # None)

\* C22: the calculator returns for a list what it returns for the list
\* without its invalid rows: an invalid row neither fails the call nor
\* enters the curve with a value put in its place.
C22_InvalidRowsAreRemoved ==
    result.called
    => /\ result.curve = perform_power_curve_calculation(Cleaned)
       /\ \A d \in DOMAIN result.curve :
             \E t \in FullWindows(d) : IsRoundedMeanOf(result.curve[d], t, d)

\* C22 witness: the list of the unit test, with three invalid rows between
\* samples at 0 s and 3 s, gives the curve {1: 200} of the two samples.
C22_Witness ==
    /\ result.called
    /\ records_data = InvalidTypesExample
    /\ Len(Cleaned) = 2
    /\ DOMAIN result.curve = {1}
    /\ result.curve[1] = 200 * MilliPerWatt

\* The smallest and the largest power among the samples of the call, in
\* tenths of a milliwatt.
MinPower == -SetMax({ -Samples[i].power : i \in 1..Len(Samples) })
MaxPower == SetMax({ Samples[i].power : i \in 1..Len(Samples) })

\* Every sample's power is a whole number of thousandths of a watt.
WholeThousandths ==
    \A i \in 1..Len(Samples) : Samples[i].power % UnitsPerMilli = 0

\* C28 as stated: every value of the curve lies between the smallest and
\* the largest power of the samples.
C28_WithinSamplePowers ==
    result.called
    => \A d \in DOMAIN result.curve :
          /\ MinPower <= result.curve[d] * UnitsPerMilli
          /\ result.curve[d] * UnitsPerMilli <= MaxPower

\* C28 (amended): every value of the curve lies within half a thousandth
\* of a watt, the rounding of the value, of the range from the smallest to
\* the largest power of the samples, and inside the range when the powers
\* are whole thousandths of a watt; with non-negative powers no value is
\* negative.
C28_WithinRoundedSamplePowers ==
    result.called
    => \A d \in DOMAIN result.curve :
          /\ 2 * MinPower - UnitsPerMilli
                <= 2 * result.curve[d] * UnitsPerMilli
          /\ 2 * result.curve[d] * UnitsPerMilli
                <= 2 * MaxPower + UnitsPerMilli
          /\ WholeThousandths
             => /\ MinPower <= result.curve[d] * UnitsPerMilli
                /\ result.curve[d] * UnitsPerMilli <= MaxPower
          /\ MinPower >= 0 => result.curve[d] >= 0

\* C28 witness: a curve of samples with different powers that has a value
\* strictly between the smallest and the largest, and the largest itself.
C28_Witness ==
    /\ result.called
    /\ WholeThousandths
    /\ \E d \in DOMAIN result.curve :
          /\ MinPower < result.curve[d] * UnitsPerMilli
          /\ result.curve[d] * UnitsPerMilli < MaxPower
    /\ \E d \in DOMAIN result.curve :
          result.curve[d] * UnitsPerMilli = MaxPower

\* --------------------------------------------- the gap filler, explored
\* The processor reading a file (services.py:159-228), for every short list
\* of record frames: samples on a half-second grid in any order, with
\* repeated timestamps, frames without a timestamp or without a power, and
\* two longer silences: five seconds, and two and a half seconds.
FillPowers == {0, 100}
FrameRows == { Rec(t, p) : t \in 0..MaxTick, p \in FillPowers }

SilenceExamples ==
    { << Rec(0, 100), Rec(5 * TicksPerSecond, 100) >>,
      << Rec(TicksPerSecond + 5, 100), Rec(1, 0), Rec(TicksPerSecond, 100) >> }

\* Files with a frame that carries a timestamp but no usable power: between
\* two samples one second apart, and in the middle of a two-second silence.
DiscardExamples ==
    { << Rec(0, 100), Rec(1, None), Rec(TicksPerSecond, 100) >>,
      << Rec(0, 100), Rec(TicksPerSecond, None),
         Rec(2 * TicksPerSecond, 100) >> }

\* test_calculations.py:40-53: samples at 0, 1.5, 3 and 4.5 s.
SubTwoSecondExample ==
    << Rec(0, 200), Rec(3, 200), Rec(6, 200), Rec(9, 200) >>

FillInputs ==
    ListsOf(FrameRows \cup InvalidRows, MaxRows)
    \cup SilenceExamples \cup DiscardExamples \cup {SubTwoSecondExample}

\* The state in which the first recording has been uploaded by the first
\* worker and its invocation has committed 'processing'.
InitFill ==
    /\ \E frames \in FillInputs :
          fit_dir = [f \in FileIds |->
                        IF f = 1 THEN FitFileOf(frames) ELSE NoFile]
    /\ next_id = 2
    /\ processing_status =
          [f \in FileIds |-> IF f = 1 THEN Processing ELSE Absent]
    /\ power_curve_point = [f \in FileIds |-> EmptyBag]
    /\ user_id = [f \in FileIds |-> IF f = 1 THEN Uploader ELSE NoUser]
    /\ activity_date = [f \in FileIds |-> IF f = 1 THEN UploadDay ELSE None]
    /\ pc = [w \in Workers |-> IF w = 1 THEN "processing" ELSE "idle"]
    /\ file_id = [w \in Workers |-> IF w = 1 THEN 1 ELSE NoCall]
    /\ session = [w \in Workers |-> EmptySession]
    /\ processed_records_data = [w \in Workers |-> << >>]
    /\ power_curve_data = [w \in Workers |-> << >>]
    /\ calculator_calls = [w \in Workers |-> 0]
    /\ interrupted = {}
    /\ invocations = 1
    /\ last_good = [f \in FileIds |-> EmptyBag]
    /\ runs = [f \in FileIds |-> << >>]
    /\ response = NoResponse
    /\ records_data = << >>
    /\ result = NotCalled
    /\ returned = None

NextFill == \E w \in Workers : ReadRecords(w)

SpecFill == InitFill /\ [][NextFill]_vars

\* Worker w has the gap-filled records of its file at hand.
Filled(w) == pc[w] = "filled"

\* The record frames of the file of worker w that are samples, in file
\* order, and their timestamps.
Originals(w) ==
    LET frames == fit_dir[file_id[w]].frames
    IN  SelectSeq(frames,
                  LAMBDA r : r.timestamp # None /\ r.power # None)

OriginalTimes(w) ==
    { Originals(w)[i].timestamp : i \in 1..Len(Originals(w)) }

\* The whole-second offsets t + k s after an original timestamp t that lie
\* at least one second before the next original timestamp.
ZeroTimes(w) ==
    UNION { { x \in (t + 1)..(SetMax(OriginalTimes(w)) - TicksPerSecond) :
                 /\ (x - t) % TicksPerSecond = 0
                 /\ \A u \in OriginalTimes(w) :
                       u > t => x <= u - TicksPerSecond }
            : t \in OriginalTimes(w) }

FilledTimes(w) ==
    { processed_records_data[w][i].timestamp
         : i \in 1..Len(processed_records_data[w]) }

C20_StrictlyIncreasingKeepsFirst ==
    \A w \in Workers :
        Filled(w)
        => /\ \A i \in 1..Len(processed_records_data[w]),
                 j \in 1..Len(processed_records_data[w]) :
                 i < j => processed_records_data[w][i].timestamp
                             < processed_records_data[w][j].timestamp
           /\ \A i \in 1..Len(processed_records_data[w]) :
                 LET r == processed_records_data[w][i]
                     same == { k \in 1..Len(Originals(w)) :
                                  Originals(w)[k].timestamp = r.timestamp }
                 IN  same # {}
                     => r = Originals(w)[CHOOSE k \in same :
                                            \A l \in same : k <= l]

\* C20 witness: a file whose samples are out of order and repeat a
\* timestamp with different powers was read, and the first of the repeated
\* samples is among the records.
C20_Witness ==
    \E w \in Workers :
        /\ Filled(w)
        /\ Originals(w) # SortByTimestamp(Originals(w))
        /\ \E i \in 1..Len(Originals(w)), j \in 1..Len(Originals(w)) :
              /\ i < j
              /\ Originals(w)[i].timestamp = Originals(w)[j].timestamp
              /\ Originals(w)[i].power # Originals(w)[j].power
              /\ Originals(w)[i] \in Range(processed_records_data[w])
              /\ Originals(w)[j] \notin Range(processed_records_data[w])

\* The frames of the file of worker w that carry a timestamp but are not
\* samples: their power is missing or not a number.
Discarded(w) ==
    { r \in Range(fit_dir[file_id[w]].frames) :
         r.timestamp # None /\ r.power = None }

\* C21: frames without a usable power or timestamp are dropped before the
\* gaps are looked for and never become a sample: every record handed to
\* the calculator has a timestamp and a power, the records are those the
\* samples alone give, and a record at the timestamp of a dropped frame is
\* a sample of the file or a zero that the gap between the samples around
\* it puts there.
C21_DiscardedNotZero ==
    \A w \in Workers :
        Filled(w)
        => /\ \A i \in 1..Len(processed_records_data[w]) :
                 /\ processed_records_data[w][i].timestamp # None
                 /\ processed_records_data[w][i].power # None
           /\ FilledTimes(w) = OriginalTimes(w) \cup ZeroTimes(w)
           /\ \A r \in Discarded(w) :
                 \A i \in 1..Len(processed_records_data[w]) :
                     processed_records_data[w][i].timestamp = r.timestamp
                     => \/ processed_records_data[w][i] \in Range(Originals(w))
                        \/ /\ processed_records_data[w][i].power = 0
                           /\ r.timestamp \in ZeroTimes(w)

\* C21 witness: a frame without power lies between two samples one second
\* apart, and the records are exactly the two samples.
C21_Witness ==
    \E w \in Workers :
        /\ Filled(w)
        /\ \E r \in Discarded(w) :
              /\ \E t \in OriginalTimes(w) : t < r.timestamp
              /\ \E t \in OriginalTimes(w) : t > r.timestamp
              /\ r.timestamp \notin FilledTimes(w)
        /\ Len(processed_records_data[w]) = 2
        /\ Range(processed_records_data[w]) = Range(Originals(w))

\* Two original timestamps of worker w's file with no original between.
ConsecutiveOriginals(w, t, u) ==
    /\ t \in OriginalTimes(w) /\ u \in OriginalTimes(w)
    /\ t < u
    /\ \A x \in OriginalTimes(w) : ~(t < x /\ x < u)

====
